---- MODULE Spec2Model ----
(***************************************************************************)
(* OAuth token lifecycle of the social broker: state codec, PKCE verifier  *)
(* store, code exchange, token refresh and the TokenManager, as request    *)
(* tasks running concurrently against one Redis store.                     *)
(*                                                                         *)
(* Time is in seconds.  Strings that are secrets are modelled as tuples    *)
(* (<<"at", k, j>>: the j-th access token a provider issued to request k); *)
(* the empty string is <<>>.                                               *)
(***************************************************************************)
EXTENDS Integers, Sequences, FiniteSets, TLC

VARIABLES now, tokenStore, pkceStore, task, ops, target, probe, used

vars == <<now, tokenStore, pkceStore, task, ops, target, probe, used>>

(* used is a history variable: the states with which a Callback has        *)
(* exchanged a code and saved a token, each with the number of requests    *)
(* started by then.  The program keeps no such record.                     *)

(***************************** bounds **************************************)
MaxOps == 2
MaxTicks == 1
MaxProbe == 2
ProbeSpan == 2
ShortLife == 60
LongLife == 3600
StartTime == 7200

Procs == {1, 2}
Users == {"u1", "u2"}
(* user_id values of Callback requests; the state may name either user. *)
CallbackUsers == {"u1"}
ConfiguredServers == {"myapp"}
ServerNames == {"myapp", "other"}
ExpiresInValues == {0, ShortLife, LongLife}
ExchangeExpiresIn == {LongLife}

(*************************** program constants *****************************)
Providers == {"youtube", "x", "facebook", "tiktok", "instagram"}

XTokenURL == "https://api.x.com/2/oauth2/token"
FacebookTokenURL == "https://graph.facebook.com/v18.0/oauth/access_token"
InstagramTokenURL == "https://api.instagram.com/oauth/access_token"
YouTubeTokenURL == "https://oauth2.googleapis.com/token"
TikTokTokenURL == "https://open.tiktokapis.com/v2/oauth/token/"

expiryBuffer == 5 * 60
PKCEExpiration == 30 * 60
TokenExpiration == 30 * 24 * 3600
TickStep == PKCEExpiration

Empty == <<>>
ZeroTime == 0
Garbage == <<"%%%">>

(* oauth2.Token: the four exported fields the program reads and stores. *)
Token(at, tt, rt, exp) ==
    [AccessToken |-> at, TokenType |-> tt, RefreshToken |-> rt, Expiry |-> exp]

ZeroToken == Token(Empty, "", Empty, ZeroTime)

(* A nil *oauth2.Token. *)
NilToken == [nil |-> TRUE]

(****************************** state codec ********************************)
(* EncodeState that leaves the server name out of the payload. *)
EncodeStateNoServer(userID, serverName, nonce) ==
    <<"b64", "uid", userID, "server", "", "n", nonce>>

(* json.Marshal of StatePayload then base64: the three fields under their  *)
(* JSON names, wrapped; a raw string is a tuple of strings.                *)
EncodeState(userID, serverName, nonce) ==
    <<"b64", "uid", userID, "server", serverName, "n", nonce>>

DecodeOK(raw) ==
    /\ Len(raw) = 7
    /\ raw[1] = "b64" /\ raw[2] = "uid" /\ raw[4] = "server" /\ raw[6] = "n"

(* DecodeState: err # "" when base64 or JSON decoding fails. *)
DecodeState(raw) ==
    IF DecodeOK(raw)
    THEN [err |-> "", UserID |-> raw[3], ServerName |-> raw[5], Nonce |-> raw[7]]
    ELSE [err |-> "failed to decode state", UserID |-> "", ServerName |-> "", Nonce |-> ""]

(****************************** configuration ******************************)
TokenURLOf(provider) ==
    CASE provider = "youtube" -> YouTubeTokenURL
      [] provider = "x" -> XTokenURL
      [] provider = "facebook" -> FacebookTokenURL
      [] provider = "tiktok" -> TikTokTokenURL
      [] provider = "instagram" -> InstagramTokenURL

(* Config.GetServerOAuthConfig: the token endpoint, or an error. *)
GetServerOAuthConfig(provider, serverName) ==
    IF serverName \notin ConfiguredServers
    THEN [err |-> "server configuration not found", TokenURL |-> ""]
    ELSE IF provider \notin Providers
    THEN [err |-> "unknown provider", TokenURL |-> ""]
    ELSE [err |-> "", TokenURL |-> TokenURLOf(provider)]

(******************************* Redis store *******************************)
(* strings.Split(s, ":") for the names in use: a string is taken for what  *)
(* lies between its colons, so that two strings are equal exactly when     *)
(* their segments are.                                                     *)
Segs(s) ==
    CASE s = "x:u1" -> <<"x", "u1">>
      [] s = "myapp:x" -> <<"myapp", "x">>
      [] OTHER -> <<s>>

(* fmt.Sprintf("token:%s:%s:%s", serverName, provider, userID), with       *)
(* "default" for an empty server name: the key as its colon-separated      *)
(* segments.                                                               *)
TokenKey(userID, provider, serverName) ==
    <<"token">> \o Segs(IF serverName = "" THEN "default" ELSE serverName)
                \o Segs(provider) \o Segs(userID)

PKCEKey(state) == <<"pkce">> \o state

(* A key is readable while present and not past its TTL. *)
Live(store, key) == key \in DOMAIN store /\ now < store[key].exp

Put(store, key, data, ttl) ==
    [k \in DOMAIN store \cup {key} |->
        IF k = key THEN [data |-> data, exp |-> now + ttl] ELSE store[k]]

Del(store, key) == [k \in DOMAIN store \ {key} |-> store[k]]

(* json.Marshal(oauth2.Token): token_type and refresh_token are omitempty. *)
MarshalToken(t) ==
    LET base == [access_token |-> t.AccessToken, expiry |-> t.Expiry] IN
    IF t.TokenType # "" /\ t.RefreshToken # Empty
    THEN [access_token |-> t.AccessToken, expiry |-> t.Expiry,
          token_type |-> t.TokenType, refresh_token |-> t.RefreshToken]
    ELSE IF t.TokenType # ""
    THEN [access_token |-> t.AccessToken, expiry |-> t.Expiry, token_type |-> t.TokenType]
    ELSE IF t.RefreshToken # Empty
    THEN [access_token |-> t.AccessToken, expiry |-> t.Expiry, refresh_token |-> t.RefreshToken]
    ELSE base

UnmarshalToken(j) ==
    Token(j.access_token,
          IF "token_type" \in DOMAIN j THEN j.token_type ELSE "",
          IF "refresh_token" \in DOMAIN j THEN j.refresh_token ELSE Empty,
          j.expiry)

(* SaveToken that keeps the stored refresh token when the new token has    *)
(* none.                                                                   *)
SaveTokenMerging(store, userID, provider, serverName, token) ==
    LET key == TokenKey(userID, provider, serverName)
        old == IF Live(store, key) THEN UnmarshalToken(store[key].data) ELSE token
        merged == IF token.RefreshToken = Empty
                  THEN [token EXCEPT !.RefreshToken = old.RefreshToken]
                  ELSE token
    IN Put(store, key, MarshalToken(merged), TokenExpiration)

(* SaveToken that reports success without writing the key. *)
SaveTokenLost(store, userID, provider, serverName, token) == store

(* RedisStorage.SaveToken: the store after a successful SET. *)
SaveToken(store, userID, provider, serverName, token) ==
    Put(store, TokenKey(userID, provider, serverName), MarshalToken(token), TokenExpiration)

(* GetToken that answers a missing key with an empty token, not an error. *)
GetTokenNoNil(store, userID, provider, serverName, ok) ==
    LET key == TokenKey(userID, provider, serverName) IN
    IF ~ok THEN [err |-> "redis connection failed", token |-> ZeroToken]
    ELSE IF ~Live(store, key) THEN [err |-> "", token |-> ZeroToken]
    ELSE [err |-> "", token |-> UnmarshalToken(store[key].data)]

(* RedisStorage.GetToken: ok is the PING and GET succeeding (input). *)
GetToken(store, userID, provider, serverName, ok) ==
    LET key == TokenKey(userID, provider, serverName) IN
    IF ~ok THEN [err |-> "redis connection failed", token |-> ZeroToken]
    ELSE IF ~Live(store, key) THEN [err |-> "token not found", token |-> ZeroToken]
    ELSE [err |-> "", token |-> UnmarshalToken(store[key].data)]

(**************************** TokenManager helpers *************************)
(* isTokenExpired that calls every token expired. *)
isTokenExpiredAlways(token, t) == TRUE

(* isTokenExpired with the margin boundary counted as expired. *)
isTokenExpiredAtBoundary(token, t) ==
    IF token = NilToken THEN TRUE
    ELSE IF token.Expiry = ZeroTime THEN TRUE
    ELSE t + expiryBuffer >= token.Expiry

(* time.Now().Add(expiryBuffer).After(token.Expiry), nil and zero Expiry   *)
(* first.                                                                  *)
isTokenExpired(token, t) ==
    IF token = NilToken THEN TRUE
    ELSE IF token.Expiry = ZeroTime THEN TRUE
    ELSE t + expiryBuffer > token.Expiry

(* The AppErrors of package errors: code and message. *)
ErrTokenNotFound == [code |-> "TOKEN_NOT_FOUND", message |-> "OAuth token not found"]
ErrInvalidState == [code |-> "INVALID_STATE", message |-> "Invalid OAuth state parameter"]
ErrPKCEVerifierNotFound ==
    [code |-> "PKCE_VERIFIER_NOT_FOUND", message |-> "PKCE verifier not found or expired"]

(******************************* request tasks *****************************)
NoReq == [user |-> "", provider |-> "", server |-> "", state |-> Empty]
NoRes == [code |-> "", detail |-> "", token |-> ZeroToken]

IdleTask ==
    [op |-> "none", pc |-> "idle", req |-> NoReq, cur |-> ZeroToken,
     new |-> ZeroToken, verifier |-> Empty, cred |-> Empty, calls |-> 0, id |-> 0,
     wrote |-> FALSE, read |-> ZeroToken, pkce |-> "none", res |-> NoRes]

NoProbe == [t |-> ZeroTime, token |-> NilToken, expired |-> TRUE]

(* Redis outlives the server process: at start-up the store may hold a     *)
(* token that an earlier Callback or refresh saved, and a verifier that an *)
(* earlier StartAuth saved.  Seeds are for the identity (u1, pr, myapp).   *)
SeedRefreshTokens(provider) ==
    IF provider \in {"facebook", "instagram"}
    THEN {Empty, <<"at", 0, 1>>}
    ELSE {Empty, <<"rt", 0, 1>>}

SeedExpiries == {ZeroTime, StartTime - 1, StartTime + TickStep}

SeedTokens(provider) ==
    {Token(<<"at", 0, 1>>, "bearer", rt, e) :
        rt \in SeedRefreshTokens(provider), e \in SeedExpiries}

SeedState == EncodeState("u1", "myapp", 0)

SeedTokenStore(provider, t) ==
    [k \in {TokenKey("u1", provider, "myapp")} |->
        [data |-> MarshalToken(t), exp |-> StartTime - 1 + TokenExpiration]]

SeedTokenStores(pr) ==
    {<<>>} \cup {SeedTokenStore(pr, t) : t \in SeedTokens(pr)}

SeedPKCEStores(pr) ==
    IF pr # "x" THEN {<<>>}
    ELSE {<<>>,
          [k \in {PKCEKey(SeedState)} |->
              [data |-> <<"v", 0, 1>>, exp |-> StartTime + PKCEExpiration]]}

Init ==
    /\ now = StartTime
    /\ target \in Providers
    /\ tokenStore \in SeedTokenStores(target)
    /\ pkceStore \in SeedPKCEStores(target)
    /\ task = [p \in Procs |-> IdleTask]
    /\ ops = 0
    /\ probe = NoProbe
    /\ used = {}

(* A reply is handed back before anything else happens: Return changes no *)
(* program state, so this only orders the steps of the model.             *)
NoReply == \A q \in Procs : task[q].pc # "done"

(* Time passes between any two steps. *)
Tick ==
    /\ NoReply
    /\ now + TickStep <= StartTime + MaxTicks * TickStep
    /\ now' = now + TickStep
    /\ UNCHANGED <<tokenStore, pkceStore, task, ops, target, probe, used>>

(* A task may start a request when it is not in the middle of one. *)
(* Requests for different identities touch different keys and commute, so *)
(* only requests for the identity of a request in progress overlap it.     *)
CanStart(p, userID, serverName) ==
    /\ task[p].pc = "idle"
    /\ ops < MaxOps
    /\ NoReply
    /\ \A q \in Procs : q < p => task[q].pc # "idle"
    /\ \A q \in Procs : task[q].pc # "idle" =>
          task[q].req.user = userID /\ task[q].req.server = serverName

Begin(p, op, req) ==
    [IdleTask EXCEPT !.op = op, !.req = req, !.id = ops + 1]

(* The text of the error CreateAuthenticatedClient returns for an error of *)
(* GetValidToken: "failed to get valid token: " before the text of that    *)
(* error, which is the message of ErrTokenNotFound or, for every error of  *)
(* the refresh, begins with "token refresh failed".                        *)
failedToGetValidToken(detail) ==
    CASE detail = ErrTokenNotFound.message
           -> "failed to get valid token: OAuth token not found"
      [] OTHER -> "failed to get valid token: token refresh failed"

(* Share, GetStats, GetRecentPosts: err.Error() == "token not found". *)
shareErrorKind(errText) ==
    IF errText = "token not found" THEN ErrTokenNotFound.code ELSE "INTERNAL_SERVER_ERROR"

(* What a handler that goes through CreateAuthenticatedClient makes of the *)
(* outcome of GetValidToken: with a token, the config lookup and then the  *)
(* client; with an error, the error kind chosen by its text.               *)
ShareReply(t, code, detail, token) ==
    IF code = "OK"
    THEN IF GetServerOAuthConfig(t.req.provider, t.req.server).err # ""
         THEN [code |-> "INTERNAL_SERVER_ERROR", detail |-> "failed to get OAuth config",
               token |-> ZeroToken]
         ELSE [code |-> "OK", detail |-> "client", token |-> token]
    ELSE [code |-> shareErrorKind(failedToGetValidToken(detail)),
          detail |-> failedToGetValidToken(detail), token |-> ZeroToken]

(* The reply ends the request; its locals go out of scope. *)
Respond(t, code, detail, token) ==
    [t EXCEPT !.pc = "done", !.new = ZeroToken, !.verifier = Empty, !.cred = Empty,
              !.res = IF t.op = "Share" THEN ShareReply(t, code, detail, token)
                      ELSE [code |-> code, detail |-> detail, token |-> token]]

(****************************** AuthHandler.StartAuth **********************)
(* Config lookup, EncodeState with a fresh nonce, GenerateAuthURL; only x  *)
(* uses PKCE and goes on to save the verifier.                             *)
StartAuth(p, userID, provider, serverName) ==
    LET cfg == GetServerOAuthConfig(provider, serverName)
        state == EncodeState(userID, serverName, ops + 1)
        usePKCE == provider = "x"
        t0 == Begin(p, "StartAuth",
                    [user |-> userID, provider |-> provider, server |-> serverName,
                     state |-> state])
    IN
    /\ CanStart(p, userID, serverName)
    /\ ops' = ops + 1
    /\ task' = [task EXCEPT ![p] =
          IF cfg.err # "" THEN Respond(t0, "INVALID_PROVIDER", cfg.err, ZeroToken)
          ELSE IF usePKCE THEN [t0 EXCEPT !.pc = "sa_save", !.verifier = <<"v", ops + 1, 1>>]
          ELSE Respond(t0, "OK", "auth_url", ZeroToken)]
    /\ UNCHANGED <<now, tokenStore, pkceStore, target, probe, used>>

(* SavePKCEVerifier that reports success whatever the store did. *)
SavePKCEVerifierUnchecked(p, outcome) ==
    LET t == task[p] IN
    /\ NoReply
    /\ t.pc = "sa_save"
    /\ pkceStore' = IF outcome = "fail_before_set" THEN pkceStore
                    ELSE Put(pkceStore, PKCEKey(t.req.state), t.verifier, PKCEExpiration)
    /\ task' = [task EXCEPT ![p] = Respond(t, "OK", "auth_url", ZeroToken)]
    /\ UNCHANGED <<now, tokenStore, ops, target, probe, used>>

(* RedisStorage.SavePKCEVerifier: PING, SET with the 30 minute TTL, then a *)
(* GET that verifies the save; outcome is where the store fails, if at all.*)
SavePKCEVerifier(p, outcome) ==
    LET t == task[p] IN
    /\ NoReply
    /\ t.pc = "sa_save"
    /\ pkceStore' = IF outcome = "fail_before_set" THEN pkceStore
                    ELSE Put(pkceStore, PKCEKey(t.req.state), t.verifier, PKCEExpiration)
    /\ task' = [task EXCEPT ![p] =
          IF outcome = "ok" THEN Respond(t, "OK", "auth_url", ZeroToken)
          ELSE Respond(t, "INTERNAL_SERVER_ERROR", "failed to save PKCE verifier", ZeroToken)]
    /\ UNCHANGED <<now, tokenStore, ops, target, probe, used>>

(****************************** AuthHandler.Callback ***********************)
(* The identity taken from the state instead of the request. *)
callbackUserIDFromState(reqUserID, statePayload) == statePayload.UserID

(* userID := req.UserID: the identity the token is saved under is the      *)
(* request's user id, not the user id carried in the state.                *)
callbackUserID(reqUserID, statePayload) == reqUserID

(* The tenant check left out. *)
serverNameUnchecked(serverName, statePayload) == TRUE

(* serverName != statePayload.ServerName is answered with ErrInvalidState. *)
serverNameMatches(serverName, statePayload) == serverName = statePayload.ServerName

(* Callback that removes the verifier of the state before it checks the    *)
(* state.                                                                  *)
CallbackConsumingFirst(p, userID, provider, serverName, state) ==
    LET statePayload == DecodeState(state)
        cfg == GetServerOAuthConfig(provider, serverName)
        t0 == Begin(p, "Callback",
                    [user |-> userID, provider |-> provider, server |-> serverName,
                     state |-> state])
    IN
    /\ CanStart(p, userID, serverName)
    /\ ops' = ops + 1
    /\ pkceStore' = IF provider = "x" THEN Del(pkceStore, PKCEKey(state)) ELSE pkceStore
    /\ task' = [task EXCEPT ![p] =
          IF statePayload.err # ""
          THEN Respond(t0, ErrInvalidState.code, "", ZeroToken)
          ELSE IF ~serverNameMatches(serverName, statePayload)
          THEN Respond(t0, ErrInvalidState.code, "", ZeroToken)
          ELSE IF cfg.err # ""
          THEN Respond(t0, "INVALID_PROVIDER", cfg.err, ZeroToken)
          ELSE IF provider = "x" THEN [t0 EXCEPT !.pc = "cb_pkce_get"]
          ELSE [t0 EXCEPT !.pc = "cb_exchange"]]
    /\ UNCHANGED <<now, tokenStore, target, probe, used>>

(* DecodeState, the server_name check against the state, config lookup.    *)
(* The token identity is taken from the request: userID := req.UserID.     *)
Callback(p, userID, provider, serverName, state) ==
    LET statePayload == DecodeState(state)
        cfg == GetServerOAuthConfig(provider, serverName)
        t0 == Begin(p, "Callback",
                    [user |-> userID, provider |-> provider, server |-> serverName,
                     state |-> state])
    IN
    /\ CanStart(p, userID, serverName)
    /\ ops' = ops + 1
    /\ task' = [task EXCEPT ![p] =
          IF statePayload.err # ""
          THEN Respond(t0, ErrInvalidState.code, "", ZeroToken)
          ELSE IF ~serverNameMatches(serverName, statePayload)
          THEN Respond(t0, ErrInvalidState.code, "", ZeroToken)
          ELSE IF cfg.err # ""
          THEN Respond(t0, "INVALID_PROVIDER", cfg.err, ZeroToken)
          ELSE IF provider = "x" THEN [t0 EXCEPT !.pc = "cb_pkce_get"]
          ELSE [t0 EXCEPT !.pc = "cb_exchange"]]
    /\ UNCHANGED <<now, tokenStore, pkceStore, target, probe, used>>

(* RedisStorage.GetAndDeletePKCEVerifier sends GET and DEL in a go-redis   *)
(* Pipeline (no MULTI/EXEC): the server runs them in order, but commands   *)
(* of other clients may run between them.  First the GET ...               *)
PKCEGet(p, ok) ==
    LET t == task[p]
        key == PKCEKey(t.req.state)
    IN
    /\ NoReply
    /\ t.pc = "cb_pkce_get"
    /\ task' = [task EXCEPT ![p] =
          IF ~ok
          THEN Respond([t EXCEPT !.pkce = "fault"], ErrInvalidState.code,
                       "PKCE verifier not found or expired", ZeroToken)
          ELSE IF Live(pkceStore, key)
          THEN [t EXCEPT !.pc = "cb_pkce_del", !.verifier = pkceStore[key].data]
          ELSE [t EXCEPT !.pc = "cb_pkce_del"]]
    /\ UNCHANGED <<now, tokenStore, pkceStore, ops, target, probe, used>>

(* ... then the DEL (ok: it succeeds), and the replies are read: redis.Nil *)
(* from the GET is the not-found error, a failed DEL after a GET that      *)
(* found the verifier is an error too; Callback answers every error of     *)
(* GetAndDeletePKCEVerifier with ErrInvalidState.  pkce records how the    *)
(* call returned: "hit" with the verifier, "miss" not found, "fault".      *)
PKCEDel(p, ok) ==
    LET t == task[p]
        key == PKCEKey(t.req.state)
    IN
    /\ NoReply
    /\ t.pc = "cb_pkce_del"
    /\ pkceStore' = IF ok THEN Del(pkceStore, key) ELSE pkceStore
    /\ task' = [task EXCEPT ![p] =
          IF t.verifier = Empty
          THEN Respond([t EXCEPT !.pkce = "miss"], ErrInvalidState.code,
                       "PKCE verifier not found or expired", ZeroToken)
          ELSE IF ~ok
          THEN Respond([t EXCEPT !.pkce = "fault"], ErrInvalidState.code,
                       "PKCE verifier not found or expired", ZeroToken)
          ELSE [t EXCEPT !.pc = "cb_exchange", !.pkce = "hit"]]
    /\ UNCHANGED <<now, tokenStore, ops, target, probe, used>>

(* Expiry that gives a response without expires_in a default lifetime. *)
ExpiryOfDefault(expiresIn) ==
    IF expiresIn > 0 THEN now + expiresIn ELSE now + LongLife

(* Expiry of a provider response: now + expires_in when expires_in > 0. *)
ExpiryOf(expiresIn) == IF expiresIn > 0 THEN now + expiresIn ELSE ZeroTime

(* ExchangeCode that fails when the long-lived upgrade fails. *)
ExchangeCodeStrict(id, tokenURL, okP, expP, hasRT, okU, expU) ==
    LET short == Token(<<"at", id, 1>>, "bearer",
                       IF hasRT THEN <<"rt", id, 1>> ELSE Empty, ExpiryOf(expP))
        long == Token(<<"at", id, 2>>, "bearer", <<"at", id, 2>>, ExpiryOf(expU))
        upgrade == tokenURL \in {InstagramTokenURL, FacebookTokenURL}
    IN
    IF ~okP THEN [err |-> "token exchange failed", token |-> ZeroToken, calls |-> 1]
    ELSE IF ~upgrade THEN [err |-> "", token |-> short, calls |-> 1]
    ELSE IF okU THEN [err |-> "", token |-> long, calls |-> 2]
    ELSE [err |-> "token exchange failed", token |-> ZeroToken, calls |-> 2]

(* OAuthService.ExchangeCode: the primary code exchange (okP, with the     *)
(* response's expires_in and refresh_token), then for instagram and        *)
(* facebook the long-lived upgrade (okU), whose failure is swallowed.      *)
ExchangeCode(id, tokenURL, okP, expP, hasRT, okU, expU) ==
    LET short == Token(<<"at", id, 1>>, "bearer",
                       IF hasRT THEN <<"rt", id, 1>> ELSE Empty, ExpiryOf(expP))
        long == Token(<<"at", id, 2>>, "bearer", <<"at", id, 2>>, ExpiryOf(expU))
        upgrade == tokenURL \in {InstagramTokenURL, FacebookTokenURL}
    IN
    IF ~okP THEN [err |-> "token exchange failed", token |-> ZeroToken, calls |-> 1]
    ELSE IF ~upgrade THEN [err |-> "", token |-> short, calls |-> 1]
    ELSE IF okU THEN [err |-> "", token |-> long, calls |-> 2]
    ELSE [err |-> "", token |-> short, calls |-> 2]

CallbackExchange(p, okP, expP, hasRT, okU, expU) ==
    LET t == task[p]
        cfg == GetServerOAuthConfig(t.req.provider, t.req.server)
        x == ExchangeCode(t.id, cfg.TokenURL, okP, expP, hasRT, okU, expU)
    IN
    /\ NoReply
    /\ t.pc = "cb_exchange"
    /\ task' = [task EXCEPT ![p] =
          IF x.err # ""
          THEN Respond([t EXCEPT !.calls = x.calls], "INTERNAL_SERVER_ERROR", x.err, ZeroToken)
          ELSE [t EXCEPT !.pc = "cb_save", !.new = x.token, !.calls = x.calls]]
    /\ UNCHANGED <<now, tokenStore, pkceStore, ops, target, probe, used>>

(* h.storage.SaveToken(ctx, userID, req.Provider, serverName, token) *)
CallbackSave(p, ok) ==
    LET t == task[p] IN
    /\ NoReply
    /\ t.pc = "cb_save"
    /\ tokenStore' = IF ok
                     THEN SaveToken(tokenStore, callbackUserID(t.req.user, DecodeState(t.req.state)),
                                    t.req.provider, t.req.server, t.new)
                     ELSE tokenStore
    /\ task' = [task EXCEPT ![p] =
          IF ok THEN [t EXCEPT !.pc = "cb_verify", !.wrote = TRUE]
          ELSE Respond(t, "INTERNAL_SERVER_ERROR", "failed to save token", ZeroToken)]
    /\ used' = IF ok THEN used \cup {[state |-> t.req.state, at |-> ops]} ELSE used
    /\ UNCHANGED <<now, pkceStore, ops, target, probe>>

(* The read-back: GetToken and the access-token comparison. *)
CallbackVerify(p, ok) ==
    LET t == task[p]
        g == GetToken(tokenStore, callbackUserID(t.req.user, DecodeState(t.req.state)),
                      t.req.provider, t.req.server, ok)
    IN
    /\ NoReply
    /\ t.pc = "cb_verify"
    /\ task' = [task EXCEPT ![p] =
          IF g.err # "" \/ g.token.AccessToken # t.new.AccessToken
          THEN Respond(t, "INTERNAL_SERVER_ERROR", "token save verification failed", ZeroToken)
          ELSE Respond(t, "OK", "", t.new)]
    /\ UNCHANGED <<now, tokenStore, pkceStore, ops, target, probe, used>>

(****************************** TokenManager *******************************)
(* refreshToken that refreshes every provider with the access token when   *)
(* there is no refresh token.                                              *)
refreshCredentialAnyAccessToken(provider, serverName, currentToken) ==
    LET cfg == GetServerOAuthConfig(provider, serverName)
        cur == IF currentToken.AccessToken # Empty
                  /\ (provider = "instagram" \/ currentToken.RefreshToken = Empty)
               THEN [currentToken EXCEPT !.RefreshToken = currentToken.AccessToken]
               ELSE currentToken
    IN
    IF cur.RefreshToken = Empty
    THEN [err |-> "refresh token not available", cur |-> cur]
    ELSE IF cfg.err # ""
    THEN [err |-> "failed to get OAuth config", cur |-> cur]
    ELSE [err |-> "", cur |-> cur]

(* refreshToken without the check for an empty refresh token. *)
refreshCredentialUnchecked(provider, serverName, currentToken) ==
    LET cfg == GetServerOAuthConfig(provider, serverName)
        cur == IF provider = "instagram" /\ currentToken.AccessToken # Empty
               THEN [currentToken EXCEPT !.RefreshToken = currentToken.AccessToken]
               ELSE currentToken
    IN
    IF provider = "instagram" /\ currentToken.AccessToken = Empty
    THEN [err |-> "instagram access token not available", cur |-> cur]
    ELSE IF cfg.err # ""
    THEN [err |-> "failed to get OAuth config", cur |-> cur]
    ELSE [err |-> "", cur |-> cur]

(* refreshToken, before the provider call: instagram refreshes with its    *)
(* access token (written into the local copy of the token); every other    *)
(* provider needs a stored refresh token; then the config lookup.          *)
refreshCredential(provider, serverName, currentToken) ==
    LET cfg == GetServerOAuthConfig(provider, serverName)
        cur == IF provider = "instagram" /\ currentToken.AccessToken # Empty
               THEN [currentToken EXCEPT !.RefreshToken = currentToken.AccessToken]
               ELSE currentToken
    IN
    IF provider = "instagram" /\ currentToken.AccessToken = Empty
    THEN [err |-> "instagram access token not available", cur |-> cur]
    ELSE IF provider # "instagram" /\ currentToken.RefreshToken = Empty
    THEN [err |-> "refresh token not available", cur |-> cur]
    ELSE IF cfg.err # ""
    THEN [err |-> "failed to get OAuth config", cur |-> cur]
    ELSE [err |-> "", cur |-> cur]

(* The step of GetValidToken / ForceRefreshToken that enters refreshToken. *)
EnterRefresh(t0, provider, serverName, token) ==
    LET pre == refreshCredential(provider, serverName, token) IN
    IF pre.err # ""
    THEN Respond([t0 EXCEPT !.cur = pre.cur, !.read = token], "error", pre.err, ZeroToken)
    ELSE [t0 EXCEPT !.pc = "rf_call", !.cur = pre.cur, !.read = token,
                    !.cred = pre.cur.RefreshToken]

(* TokenManager.GetValidToken: GetToken, isTokenExpired, maybe refresh. *)
GetValidToken(p, userID, provider, serverName, ok) ==
    LET g == GetToken(tokenStore, userID, provider, serverName, ok)
        t0 == Begin(p, "GetValidToken",
                    [user |-> userID, provider |-> provider, server |-> serverName,
                     state |-> Empty])
    IN
    /\ CanStart(p, userID, serverName)
    /\ ops' = ops + 1
    /\ task' = [task EXCEPT ![p] =
          IF g.err # ""
          THEN Respond(t0, ErrTokenNotFound.code, ErrTokenNotFound.message, ZeroToken)
          ELSE IF isTokenExpired(g.token, now)
          THEN EnterRefresh(t0, provider, serverName, g.token)
          ELSE Respond([t0 EXCEPT !.cur = g.token, !.read = g.token], "OK", "", g.token)]
    /\ UNCHANGED <<now, tokenStore, pkceStore, target, probe, used>>

(* ShareHandler.Share (GetStats and GetRecentPosts alike) up to the        *)
(* authenticated client: CreateAuthenticatedClient, which is GetValidToken *)
(* and the config lookup.                                                  *)
Share(p, userID, provider, serverName, ok) ==
    LET g == GetToken(tokenStore, userID, provider, serverName, ok)
        t0 == Begin(p, "Share",
                    [user |-> userID, provider |-> provider, server |-> serverName,
                     state |-> Empty])
    IN
    /\ CanStart(p, userID, serverName)
    /\ ops' = ops + 1
    /\ task' = [task EXCEPT ![p] =
          IF g.err # ""
          THEN Respond(t0, "error", ErrTokenNotFound.message, ZeroToken)
          ELSE IF isTokenExpired(g.token, now)
          THEN EnterRefresh(t0, provider, serverName, g.token)
          ELSE Respond([t0 EXCEPT !.cur = g.token, !.read = g.token], "OK", "", g.token)]
    /\ UNCHANGED <<now, tokenStore, pkceStore, target, probe, used>>

(* IsTokenValid that goes through the refreshing path of GetValidToken. *)
IsTokenValidRefreshing(p, userID, provider, serverName, ok) ==
    LET g == GetToken(tokenStore, userID, provider, serverName, ok)
        t0 == Begin(p, "IsTokenValid",
                    [user |-> userID, provider |-> provider, server |-> serverName,
                     state |-> Empty])
    IN
    /\ CanStart(p, userID, serverName)
    /\ ops' = ops + 1
    /\ task' = [task EXCEPT ![p] =
          IF g.err # ""
          THEN Respond(t0, "OK", "false", ZeroToken)
          ELSE IF isTokenExpired(g.token, now)
          THEN EnterRefresh(t0, provider, serverName, g.token)
          ELSE Respond([t0 EXCEPT !.read = g.token], "OK", "true", ZeroToken)]
    /\ UNCHANGED <<now, tokenStore, pkceStore, target, probe, used>>

(* TokenManager.IsTokenValid: GetToken, then !isTokenExpired; every error  *)
(* of GetToken is answered (false, nil).  The reply's detail is the        *)
(* boolean returned.                                                       *)
IsTokenValid(p, userID, provider, serverName, ok) ==
    LET g == GetToken(tokenStore, userID, provider, serverName, ok)
        t0 == Begin(p, "IsTokenValid",
                    [user |-> userID, provider |-> provider, server |-> serverName,
                     state |-> Empty])
    IN
    /\ CanStart(p, userID, serverName)
    /\ ops' = ops + 1
    /\ task' = [task EXCEPT ![p] =
          IF g.err # ""
          THEN Respond(t0, "OK", "false", ZeroToken)
          ELSE Respond([t0 EXCEPT !.read = g.token], "OK",
                       IF isTokenExpired(g.token, now) THEN "false" ELSE "true", ZeroToken)]
    /\ UNCHANGED <<now, tokenStore, pkceStore, target, probe, used>>

(* ForceRefreshToken that refreshes only a token isTokenExpired calls      *)
(* expired.                                                                *)
ForceRefreshTokenLazy(p, userID, provider, serverName, ok) ==
    LET g == GetToken(tokenStore, userID, provider, serverName, ok)
        t0 == Begin(p, "ForceRefreshToken",
                    [user |-> userID, provider |-> provider, server |-> serverName,
                     state |-> Empty])
    IN
    /\ CanStart(p, userID, serverName)
    /\ ops' = ops + 1
    /\ task' = [task EXCEPT ![p] =
          IF g.err # ""
          THEN Respond(t0, "error", "OAuth token not found", ZeroToken)
          ELSE IF isTokenExpired(g.token, now)
          THEN EnterRefresh(t0, provider, serverName, g.token)
          ELSE Respond([t0 EXCEPT !.cur = g.token, !.read = g.token], "OK", "", g.token)]
    /\ UNCHANGED <<now, tokenStore, pkceStore, target, probe, used>>

(* TokenManager.ForceRefreshToken: GetToken, then refresh whatever Expiry. *)
ForceRefreshToken(p, userID, provider, serverName, ok) ==
    LET g == GetToken(tokenStore, userID, provider, serverName, ok)
        t0 == Begin(p, "ForceRefreshToken",
                    [user |-> userID, provider |-> provider, server |-> serverName,
                     state |-> Empty])
    IN
    /\ CanStart(p, userID, serverName)
    /\ ops' = ops + 1
    /\ task' = [task EXCEPT ![p] =
          IF g.err # ""
          THEN Respond(t0, "error", "OAuth token not found", ZeroToken)
          ELSE EnterRefresh(t0, provider, serverName, g.token)]
    /\ UNCHANGED <<now, tokenStore, pkceStore, target, probe, used>>

(* RefreshToken with the instagram branch copying the new access token     *)
(* into RefreshToken, as the facebook branch does.                         *)
RefreshTokenCopying(id, tokenURL, refreshToken, exp, hasRT) ==
    LET at == <<"at", id, 1>>
        rt == IF hasRT THEN <<"rt", id, 1>> ELSE Empty
    IN
    IF tokenURL = XTokenURL THEN Token(at, "bearer", rt, ExpiryOf(exp))
    ELSE IF tokenURL = InstagramTokenURL THEN Token(at, "bearer", at, ExpiryOf(exp))
    ELSE IF tokenURL = FacebookTokenURL THEN Token(at, "bearer", at, ExpiryOf(exp))
    ELSE Token(at, "bearer", IF hasRT THEN rt ELSE refreshToken, ExpiryOf(exp))

(* OAuthService.RefreshToken: one provider call, shaped by the token URL.  *)
(* x takes refresh_token from the response; instagram sets none; facebook  *)
(* copies the new access token; the oauth2 library keeps the old refresh   *)
(* token when the response has none.                                       *)
RefreshToken(id, tokenURL, refreshToken, exp, hasRT) ==
    LET at == <<"at", id, 1>>
        rt == IF hasRT THEN <<"rt", id, 1>> ELSE Empty
    IN
    IF tokenURL = XTokenURL THEN Token(at, "bearer", rt, ExpiryOf(exp))
    ELSE IF tokenURL = InstagramTokenURL THEN Token(at, "bearer", Empty, ExpiryOf(exp))
    ELSE IF tokenURL = FacebookTokenURL THEN Token(at, "bearer", at, ExpiryOf(exp))
    ELSE Token(at, "bearer", IF hasRT THEN rt ELSE refreshToken, ExpiryOf(exp))

(* refreshToken that drops the stored token when the provider refuses the  *)
(* refresh.                                                                *)
RefreshCallPurging(p, ok, exp, hasRT) ==
    LET t == task[p]
        cfg == GetServerOAuthConfig(t.req.provider, t.req.server)
    IN
    /\ NoReply
    /\ t.pc = "rf_call"
    /\ task' = [task EXCEPT ![p] =
          IF ~ok
          THEN Respond([t EXCEPT !.calls = t.calls + 1], "error", "token refresh failed", ZeroToken)
          ELSE [t EXCEPT !.pc = "rf_save", !.calls = t.calls + 1,
                         !.new = RefreshToken(t.id, cfg.TokenURL, t.cred, exp, hasRT)]]
    /\ tokenStore' = IF ok THEN tokenStore
                     ELSE Del(tokenStore, TokenKey(t.req.user, t.req.provider, t.req.server))
    /\ UNCHANGED <<now, pkceStore, ops, target, probe, used>>

(* refreshToken that sends a failed provider call once more. *)
RefreshCallRetrying(p, ok, exp, hasRT) ==
    LET t == task[p]
        cfg == GetServerOAuthConfig(t.req.provider, t.req.server)
    IN
    /\ NoReply
    /\ t.pc = "rf_call"
    /\ task' = [task EXCEPT ![p] =
          IF ~ok /\ t.calls = 0
          THEN [t EXCEPT !.calls = t.calls + 1]
          ELSE IF ~ok
          THEN Respond([t EXCEPT !.calls = t.calls + 1], "error", "token refresh failed", ZeroToken)
          ELSE [t EXCEPT !.pc = "rf_save", !.calls = t.calls + 1,
                         !.new = RefreshToken(t.id, cfg.TokenURL, t.cred, exp, hasRT)]]
    /\ UNCHANGED <<now, tokenStore, pkceStore, ops, target, probe, used>>

(* refreshToken: the provider call. *)
RefreshCall(p, ok, exp, hasRT) ==
    LET t == task[p]
        cfg == GetServerOAuthConfig(t.req.provider, t.req.server)
    IN
    /\ NoReply
    /\ t.pc = "rf_call"
    /\ task' = [task EXCEPT ![p] =
          IF ~ok
          THEN Respond([t EXCEPT !.calls = t.calls + 1], "error", "token refresh failed", ZeroToken)
          ELSE [t EXCEPT !.pc = "rf_save", !.calls = t.calls + 1,
                         !.new = RefreshToken(t.id, cfg.TokenURL, t.cred, exp, hasRT)]]
    /\ UNCHANGED <<now, tokenStore, pkceStore, ops, target, probe, used>>

(* The token refreshToken writes to the store and returns. *)
refreshResult(t) == t.new

(* refreshToken that looks at the store again before it writes and, when  *)
(* another call has replaced the token it read, returns that one instead.  *)
RefreshSaveRechecked(p, ok) ==
    LET t == task[p]
        g == GetToken(tokenStore, t.req.user, t.req.provider, t.req.server, TRUE)
        mine == g.err = "" /\ g.token = t.read
    IN
    /\ NoReply
    /\ t.pc = "rf_save"
    /\ tokenStore' = IF ok /\ mine
                     THEN SaveToken(tokenStore, t.req.user, t.req.provider, t.req.server,
                                    refreshResult(t))
                     ELSE tokenStore
    /\ task' = [task EXCEPT ![p] =
          IF ok /\ mine THEN Respond([t EXCEPT !.wrote = TRUE], "OK", "", refreshResult(t))
          ELSE IF ok /\ g.err = "" THEN Respond(t, "OK", "", g.token)
          ELSE Respond(t, "error", "failed to save refreshed token", ZeroToken)]
    /\ UNCHANGED <<now, pkceStore, ops, target, probe, used>>

(* refreshToken: SaveToken of the new token, which is then returned. *)
RefreshSave(p, ok) ==
    LET t == task[p] IN
    /\ NoReply
    /\ t.pc = "rf_save"
    /\ tokenStore' = IF ok
                     THEN SaveToken(tokenStore, t.req.user, t.req.provider, t.req.server,
                                    refreshResult(t))
                     ELSE tokenStore
    /\ task' = [task EXCEPT ![p] =
          IF ok THEN Respond([t EXCEPT !.wrote = TRUE], "OK", "", refreshResult(t))
          ELSE Respond(t, "error", "failed to save refreshed token", ZeroToken)]
    /\ UNCHANGED <<now, pkceStore, ops, target, probe, used>>

(* The handler has replied and its goroutine ends. *)
Return(p) ==
    /\ task[p].pc = "done"
    /\ task' = [task EXCEPT ![p] = IdleTask]
    /\ UNCHANGED <<now, tokenStore, pkceStore, ops, target, probe, used>>

(* States a client may present at the callback: anything it can forge or   *)
(* was handed by StartAuth.                                                *)
CallbackStates ==
    {Garbage} \cup {EncodeState(u, s, 0) : u \in Users, s \in ServerNames}
    \cup {Tail(k) : k \in DOMAIN pkceStore}

Next ==
    \/ Tick
    \/ \E p \in Procs, u \in Users, s \in ServerNames :
          StartAuth(p, u, target, s)
    \/ \E p \in Procs, o \in {"ok", "fail_before_set", "fail_after_set"} :
          SavePKCEVerifier(p, o)
    \/ \E p \in Procs, u \in CallbackUsers, s \in ServerNames, st \in CallbackStates :
          Callback(p, u, target, s, st)
    \/ \E p \in Procs, ok \in BOOLEAN : PKCEGet(p, ok)
    \/ \E p \in Procs, ok \in BOOLEAN : PKCEDel(p, ok)
    \/ \E p \in Procs, okP \in BOOLEAN, expP \in ExchangeExpiresIn, hasRT \in BOOLEAN,
           okU \in BOOLEAN, expU \in ExchangeExpiresIn :
          CallbackExchange(p, okP, expP, hasRT, okU, expU)
    \/ \E p \in Procs, ok \in BOOLEAN : CallbackSave(p, ok)
    \/ \E p \in Procs, ok \in BOOLEAN : CallbackVerify(p, ok)
    \/ \E p \in Procs, u \in Users, s \in ServerNames, ok \in BOOLEAN :
          GetValidToken(p, u, target, s, ok)
    \/ \E p \in Procs, u \in Users, s \in ServerNames, ok \in BOOLEAN :
          ForceRefreshToken(p, u, target, s, ok)
    \/ \E p \in Procs, u \in Users, s \in ServerNames, ok \in BOOLEAN :
          IsTokenValid(p, u, target, s, ok)
    \/ \E p \in Procs, u \in Users, s \in ServerNames, ok \in BOOLEAN :
          Share(p, u, target, s, ok)
    \/ \E p \in Procs, ok \in BOOLEAN, exp \in ExpiresInValues, hasRT \in BOOLEAN :
          RefreshCall(p, ok, exp, hasRT)
    \/ \E p \in Procs, ok \in BOOLEAN : RefreshSave(p, ok)
    \/ \E p \in Procs : Return(p)

Spec == Init /\ [][Next]_vars

(************************ isTokenExpired on its own ************************)
(* The clock runs in seconds and isTokenExpired is applied to a nil token, *)
(* a token without Expiry, and tokens whose Expiry lies around now and     *)
(* around now + expiryBuffer.                                              *)
ProbeExpiries ==
    {ZeroTime, now - 1, now}
    \cup (now + expiryBuffer - ProbeSpan .. now + expiryBuffer + ProbeSpan)

ProbeTokens ==
    {NilToken} \cup {Token(<<"at", 0, 1>>, "bearer", Empty, e) : e \in ProbeExpiries}

ClockSecond ==
    /\ now < StartTime + MaxProbe
    /\ now' = now + 1
    /\ UNCHANGED <<tokenStore, pkceStore, task, ops, target, probe, used>>

Classify(token) ==
    /\ probe' = [t |-> now, token |-> token, expired |-> isTokenExpired(token, now)]
    /\ UNCHANGED <<now, tokenStore, pkceStore, task, ops, target, used>>

InitExpiry ==
    /\ now = StartTime
    /\ target \in Providers
    /\ tokenStore = <<>>
    /\ pkceStore = <<>>
    /\ task = [p \in Procs |-> IdleTask]
    /\ ops = 0
    /\ probe = NoProbe
    /\ used = {}

NextExpiry ==
    \/ ClockSecond
    \/ \E token \in ProbeTokens : Classify(token)

SpecExpiry == InitExpiry /\ [][NextExpiry]_vars

(************************* the token keys of the store *********************)
(* SaveToken, GetToken and DeleteToken applied to identities whose user id *)
(* or server name may contain a colon or be empty.                         *)
KeyUsers == {"u1", "x:u1"}
KeyServers == {"", "default", "myapp", "myapp:x"}
KeyProviders == {"x", "youtube"}
KeyIdentities ==
    {[user |-> u, provider |-> pr, server |-> s] :
        u \in KeyUsers, pr \in KeyProviders, s \in KeyServers}
KeyTokens == {Token(<<"at", j, 1>>, "bearer", <<"rt", j, 1>>, StartTime + LongLife) : j \in 1..2}

(* RedisStorage.DeleteToken: DEL of the identity's key. *)
DeleteToken(store, userID, provider, serverName) ==
    Del(store, TokenKey(userID, provider, serverName))

InitKeys ==
    /\ now = StartTime
    /\ target \in KeyProviders
    /\ tokenStore = <<>>
    /\ pkceStore = <<>>
    /\ task = [p \in Procs |-> IdleTask]
    /\ ops = 0
    /\ probe = NoProbe
    /\ used = {}

KeySaveToken(id, token) ==
    /\ id.provider = target
    /\ tokenStore' = SaveToken(tokenStore, id.user, id.provider, id.server, token)
    /\ probe' = [op |-> "SaveToken", id |-> id, before |-> tokenStore]
    /\ UNCHANGED <<now, pkceStore, task, ops, target, used>>

KeyDeleteToken(id) ==
    /\ id.provider = target
    /\ tokenStore' = DeleteToken(tokenStore, id.user, id.provider, id.server)
    /\ probe' = [op |-> "DeleteToken", id |-> id, before |-> tokenStore]
    /\ UNCHANGED <<now, pkceStore, task, ops, target, used>>

KeyGetToken(id) ==
    /\ id.provider = target
    /\ probe' = [op |-> "GetToken", id |-> id, before |-> tokenStore]
    /\ UNCHANGED <<now, tokenStore, pkceStore, task, ops, target, used>>

NextKeys ==
    \/ \E id \in KeyIdentities, token \in KeyTokens : KeySaveToken(id, token)
    \/ \E id \in KeyIdentities : KeyDeleteToken(id)
    \/ \E id \in KeyIdentities : KeyGetToken(id)

SpecKeys == InitKeys /\ [][NextKeys]_vars

(********************************* properties ******************************)
(* What a GetToken for the identity returns now. *)
StoredToken(userID, provider, serverName) ==
    GetToken(tokenStore, userID, provider, serverName, TRUE)

(* Task p has just replied to a request of kind op. *)
Replied(p, op) == task[p].pc = "done" /\ task[p].op = op

(* The state was handed out by a StartAuth: states a client makes up carry *)
(* nonce 0, StartAuth numbers its nonces from 1.                           *)
IssuedByStartAuth(state) == DecodeOK(state) /\ DecodeState(state).Nonce > 0

(* C1: when GetValidToken refreshes a stale token and both the provider    *)
(* call and the store write succeed, the token it returns is the token a   *)
(* GetToken for the identity now returns, and it is not the stale token    *)
(* that was read.                                                          *)
C1_LazyRefreshPersisted ==
    \A p \in Procs :
        Replied(p, "GetValidToken") /\ task[p].wrote /\ task[p].res.code = "OK" =>
            LET r == task[p].req
                g == StoredToken(r.user, r.provider, r.server)
            IN /\ g.err = ""
               /\ g.token = task[p].res.token
               /\ g.token.AccessToken # task[p].read.AccessToken

(* A stale token with a stored refresh token was refreshed and saved. *)
C1_Witness ==
    \E p \in Procs :
        /\ Replied(p, "GetValidToken") /\ task[p].wrote /\ task[p].res.code = "OK"
        /\ task[p].read.RefreshToken # Empty
        /\ target # "instagram"

(* C2: every token GetValidToken returns without error has its Expiry set  *)
(* and more than expiryBuffer after the time of the return.                *)
C2_ReturnedTokenFresh ==
    \A p \in Procs :
        Replied(p, "GetValidToken") /\ task[p].res.code = "OK" =>
            /\ task[p].res.token.Expiry # ZeroTime
            /\ task[p].res.token.Expiry > now + expiryBuffer

C4_VerifierReadAtMostOnce ==
    \A p, q \in Procs :
        p # q /\ task[p].pkce = "hit" /\ task[q].pkce = "hit" =>
            task[p].req.state # task[q].req.state

(* C5 (as the code has it): a successful Callback has saved the token it   *)
(* returns under (request user_id, provider, request server_name), the     *)
(* server_name being the tenant of the state; when the state names another *)
(* user, that user's identity does not hold the token.                     *)
C5_SavedUnderRequestUser ==
    \A p \in Procs :
        Replied(p, "Callback") /\ task[p].res.code = "OK" =>
            LET r == task[p].req
                sp == DecodeState(r.state)
                g == StoredToken(r.user, r.provider, r.server)
                h == StoredToken(sp.UserID, r.provider, sp.ServerName)
            IN /\ sp.err = ""
               /\ sp.ServerName = r.server
               /\ g.err = ""
               /\ g.token = task[p].res.token
               /\ sp.UserID # r.user =>
                     h.err # "" \/ h.token.AccessToken # task[p].res.token.AccessToken

(* C5 as stated: a successful Callback with a state that StartAuth issued  *)
(* has saved the token under (user of the state, provider, tenant of the   *)
(* state), whatever user_id the request carries.                           *)
C5_SavedUnderStateUser ==
    \A p \in Procs :
        /\ Replied(p, "Callback") /\ task[p].res.code = "OK"
        /\ IssuedByStartAuth(task[p].req.state)
        => LET r == task[p].req
               sp == DecodeState(r.state)
               h == StoredToken(sp.UserID, r.provider, sp.ServerName)
           IN h.err = "" /\ h.token = task[p].res.token

(* A Callback succeeded with a state that StartAuth issued to another user *)
(* than the one its request names.                                         *)
C5_Witness ==
    \E p \in Procs :
        /\ Replied(p, "Callback") /\ task[p].res.code = "OK"
        /\ IssuedByStartAuth(task[p].req.state)
        /\ DecodeState(task[p].req.state).UserID # task[p].req.user

(* C6 (as the code has it): a Callback whose server_name differs from the  *)
(* tenant of its state is answered with ErrInvalidState, the error of an   *)
(* undecodable state; it makes no provider call and saves no token.        *)
C6_TenantMismatchIsInvalidState ==
    \A p \in Procs :
        /\ Replied(p, "Callback")
        /\ DecodeOK(task[p].req.state)
        /\ DecodeState(task[p].req.state).ServerName # task[p].req.server
        => /\ task[p].res.code = ErrInvalidState.code
           /\ task[p].calls = 0
           /\ ~task[p].wrote

(* C6 as stated: the answer is an error kind of its own for the tenant     *)
(* mismatch, with no provider call and no token saved.                     *)
C6_TenantMismatchKind ==
    \A p \in Procs :
        /\ Replied(p, "Callback")
        /\ DecodeOK(task[p].req.state)
        /\ DecodeState(task[p].req.state).ServerName # task[p].req.server
        => /\ task[p].res.code = "TENANT_MISMATCH"
           /\ task[p].calls = 0
           /\ ~task[p].wrote

(* A Callback for a configured tenant presented a state of another tenant. *)
C6_Witness ==
    \E p \in Procs :
        /\ Replied(p, "Callback")
        /\ DecodeOK(task[p].req.state)
        /\ DecodeState(task[p].req.state).ServerName # task[p].req.server
        /\ task[p].req.server \in ConfiguredServers

(* C7: an x Callback that finds no verifier under its state is answered    *)
(* with the PKCE-verifier-not-found error, makes no code exchange and      *)
(* saves no token.                                                         *)
C7_MissingVerifierKind ==
    \A p \in Procs :
        Replied(p, "Callback") /\ task[p].req.provider = "x" /\ task[p].pkce = "miss" =>
            /\ task[p].res.code = ErrPKCEVerifierNotFound.code
            /\ task[p].calls = 0
            /\ ~task[p].wrote

(* C8 (as the code has it): GetValidToken for instagram refreshes with the *)
(* stored access token as the credential, and the token it stores has the  *)
(* newly issued access token and an empty RefreshToken.                    *)
C8_InstagramRefreshStored ==
    \A p \in Procs :
        task[p].op = "GetValidToken" /\ task[p].req.provider = "instagram" =>
            /\ task[p].pc \in {"rf_call", "rf_save"} =>
                  task[p].cred = task[p].read.AccessToken
            /\ task[p].pc = "done" /\ task[p].wrote /\ task[p].res.code = "OK" =>
                  LET r == task[p].req
                      g == StoredToken(r.user, r.provider, r.server)
                  IN /\ g.err = ""
                     /\ g.token.AccessToken = <<"at", task[p].id, 1>>
                     /\ g.token.AccessToken # task[p].read.AccessToken
                     /\ g.token.RefreshToken = Empty

(* C8 as stated: the stored token's RefreshToken is the new access token. *)
C8_InstagramRefreshCopies ==
    \A p \in Procs :
        /\ Replied(p, "GetValidToken") /\ task[p].req.provider = "instagram"
        /\ task[p].wrote /\ task[p].res.code = "OK"
        /\ task[p].read.RefreshToken = Empty
        => LET r == task[p].req
               g == StoredToken(r.user, r.provider, r.server)
           IN /\ g.err = ""
              /\ g.token.AccessToken = <<"at", task[p].id, 1>>
              /\ g.token.RefreshToken = g.token.AccessToken

(* An instagram token stored without RefreshToken was refreshed and saved. *)
C8_Witness ==
    \E p \in Procs :
        /\ Replied(p, "GetValidToken") /\ task[p].req.provider = "instagram"
        /\ task[p].wrote /\ task[p].res.code = "OK"
        /\ task[p].read.AccessToken # Empty
        /\ task[p].read.RefreshToken = Empty

(* C9: for a provider other than instagram, GetValidToken on a stale token *)
(* without RefreshToken fails with "refresh token not available", has made *)
(* no provider call and leaves the stored token as it was read.            *)
C9_NoRefreshCredential ==
    \A p \in Procs :
        /\ Replied(p, "GetValidToken") /\ task[p].req.provider # "instagram"
        /\ task[p].read.AccessToken # Empty
        /\ task[p].read.RefreshToken = Empty
        /\ isTokenExpired(task[p].read, now)
        => LET r == task[p].req
               g == StoredToken(r.user, r.provider, r.server)
           IN /\ task[p].res.code = "error"
              /\ task[p].res.detail = "refresh token not available"
              /\ task[p].calls = 0
              /\ ~task[p].wrote
              /\ g.err = "" /\ g.token = task[p].read

(* Such a request was made and got that error. *)
C9_Witness ==
    \E p \in Procs :
        /\ Replied(p, "GetValidToken") /\ task[p].req.provider # "instagram"
        /\ task[p].read.AccessToken # Empty
        /\ task[p].read.RefreshToken = Empty
        /\ isTokenExpired(task[p].read, now)
        /\ task[p].res.detail = "refresh token not available"

(* C10: with no token stored for the identity, GetValidToken fails with    *)
(* ErrTokenNotFound and ForceRefreshToken with an error of the same        *)
(* message; neither has called a provider or written the store.            *)
C10_NoTokenStored ==
    \A p \in Procs :
        /\ task[p].pc = "done"
        /\ task[p].op \in {"GetValidToken", "ForceRefreshToken"}
        /\ ~Live(tokenStore, TokenKey(task[p].req.user, task[p].req.provider, task[p].req.server))
        => /\ task[p].res.detail = ErrTokenNotFound.message
           /\ task[p].op = "GetValidToken" => task[p].res.code = ErrTokenNotFound.code
           /\ task[p].res.token = ZeroToken
           /\ task[p].calls = 0
           /\ ~task[p].wrote

(* ForceRefreshToken was called for an identity without a stored token. *)
C10_Witness ==
    \E p \in Procs :
        /\ Replied(p, "ForceRefreshToken")
        /\ ~Live(tokenStore, TokenKey(task[p].req.user, task[p].req.provider, task[p].req.server))
        /\ task[p].res.detail = ErrTokenNotFound.message

(* C11: when the token GetValidToken reads is valid (Expiry set and at     *)
(* least expiryBuffer ahead), it returns exactly that token, has made no   *)
(* provider call and has not written the store, which still holds it.      *)
C11_ValidReturnedAsIs ==
    \A p \in Procs :
        /\ Replied(p, "GetValidToken")
        /\ task[p].read.AccessToken # Empty
        /\ task[p].read.Expiry # ZeroTime
        /\ task[p].read.Expiry >= now + expiryBuffer
        => LET r == task[p].req
               g == StoredToken(r.user, r.provider, r.server)
           IN /\ task[p].res.code = "OK"
              /\ task[p].res.token = task[p].read
              /\ task[p].calls = 0
              /\ ~task[p].wrote
              /\ g.err = "" /\ g.token = task[p].read

(* GetValidToken found a valid token. *)
C11_Witness ==
    \E p \in Procs :
        /\ Replied(p, "GetValidToken")
        /\ task[p].read.AccessToken # Empty
        /\ task[p].read.Expiry # ZeroTime
        /\ task[p].read.Expiry >= now + expiryBuffer
        /\ task[p].res.token = task[p].read

UsableCredential(provider, token) ==
    /\ token.AccessToken # Empty
    /\ provider = "instagram" \/ token.RefreshToken # Empty

(* C13: ForceRefreshToken on a stored token with a usable refresh          *)
(* credential, valid or stale, has made exactly one provider refresh call  *)
(* when it replies; when it succeeds it has written the token the provider *)
(* issued to it under the identity and returns that token, and when it     *)
(* fails it has written nothing.                                           *)
C13_ForceRefreshUnconditional ==
    \A p \in Procs :
        /\ Replied(p, "ForceRefreshToken")
        /\ UsableCredential(task[p].req.provider, task[p].read)
        => LET r == task[p].req
               g == StoredToken(r.user, r.provider, r.server)
           IN /\ task[p].calls = 1
              /\ task[p].res.code = "OK" =>
                    /\ task[p].wrote
                    /\ task[p].res.token.AccessToken = <<"at", task[p].id, 1>>
                    /\ g.err = "" /\ g.token = task[p].res.token
              /\ task[p].res.code # "OK" => ~task[p].wrote

(* ForceRefreshToken refreshed a token that was still valid. *)
C13_Witness ==
    \E p \in Procs :
        /\ Replied(p, "ForceRefreshToken")
        /\ UsableCredential(task[p].req.provider, task[p].read)
        /\ task[p].read.Expiry >= now + expiryBuffer
        /\ task[p].res.code = "OK"
        /\ task[p].wrote

RefreshOps == {"GetValidToken", "ForceRefreshToken"}

(* C14: refreshes of one identity are not serialized.  A refresh that      *)
(* finds, when its provider call is over, that another call has replaced   *)
(* the token it had read still writes and returns its own result: the      *)
(* store then holds the token of the call that wrote last.                 *)
C14_LastWriterWins ==
    [][\A p \in Procs :
          /\ task[p].op \in RefreshOps
          /\ task[p].pc = "rf_save"
          /\ task'[p].pc = "done"
          /\ task'[p].res.code = "OK"
          /\ StoredToken(task[p].req.user, task[p].req.provider, task[p].req.server).token
                # task[p].read
          => LET r == task[p].req
                 g == GetToken(tokenStore', r.user, r.provider, r.server, TRUE)
             IN /\ g.err = ""
                /\ g.token = task[p].new
                /\ task'[p].wrote
                /\ task'[p].res.token = task[p].new]_vars

(* Two calls have read the same stale token and each has made its provider *)
(* call with it; one has written its result and replied, the other is      *)
(* about to write its own.                                                 *)
C14_Witness ==
    \E p, q \in Procs :
        /\ p # q
        /\ task[p].op \in RefreshOps /\ task[q].op \in RefreshOps
        /\ task[p].pc = "done" /\ task[p].wrote /\ task[p].calls = 1
        /\ task[q].pc = "rf_save" /\ task[q].calls = 1
        /\ task[q].read = task[p].read
        /\ task[q].cred # Empty
        /\ task[q].new.AccessToken # task[p].res.token.AccessToken

UpgradeProviders == {"facebook", "instagram"}

(* C15: for facebook and instagram ExchangeCode fails exactly when the     *)
(* primary exchange fails, and then makes no upgrade request; when the     *)
(* primary exchange succeeds it returns the long-lived token if the        *)
(* upgrade succeeded and the short-lived token otherwise.  A callback that *)
(* got past the exchange holds one of the two and made both requests.      *)
C15_UpgradeFallback ==
    \A p \in Procs :
        task[p].op = "Callback" /\ task[p].req.provider \in UpgradeProviders
        => /\ \A okP, okU, hasRT \in BOOLEAN :
                 \A expP, expU \in ExchangeExpiresIn :
                    LET x == ExchangeCode(task[p].id, TokenURLOf(task[p].req.provider),
                                          okP, expP, hasRT, okU, expU)
                    IN /\ x.err # "" <=> ~okP
                       /\ ~okP => x.calls = 1
                       /\ okP /\ okU => x.token.AccessToken = <<"at", task[p].id, 2>>
                       /\ okP /\ ~okU => x.token.AccessToken = <<"at", task[p].id, 1>>
           /\ task[p].pc \in {"cb_save", "cb_verify"}
                 => /\ task[p].calls = 2
                    /\ task[p].new.AccessToken
                          \in {<<"at", task[p].id, 1>>, <<"at", task[p].id, 2>>}
           /\ task[p].pc = "done" /\ task[p].res.detail = "token exchange failed"
                 => task[p].calls = 1 /\ ~task[p].wrote

(* A facebook or instagram callback whose upgrade request failed goes on   *)
(* to save the short-lived token.                                          *)
C15_Witness ==
    \E p \in Procs :
        /\ task[p].op = "Callback"
        /\ task[p].req.provider \in UpgradeProviders
        /\ task[p].pc = "cb_save"
        /\ task[p].calls = 2
        /\ task[p].new.AccessToken = <<"at", task[p].id, 1>>

RefreshedWithoutExpiry(token) ==
    /\ token.AccessToken # Empty
    /\ token.AccessToken[2] >= 1
    /\ token.Expiry = ZeroTime

(* C17 (as the code has it): a refresh response without a positive         *)
(* expires_in yields a token with unset Expiry.  For a stored token with   *)
(* unset Expiry IsTokenValid returns false, and GetValidToken makes a      *)
(* provider refresh call when the token still carries a refresh credential *)
(* and otherwise fails with "refresh token not available" without a call.  *)
C17_UnsetExpiryRefreshes ==
    \A p \in Procs :
        /\ task[p].op \in RefreshOps /\ task[p].pc = "rf_call"
              => \A hasRT \in BOOLEAN :
                    \A exp \in {e \in ExpiresInValues : e <= 0} :
                       RefreshToken(task[p].id, TokenURLOf(task[p].req.provider),
                                    task[p].cred, exp, hasRT).Expiry = ZeroTime
        /\ task[p].pc = "done" /\ task[p].read.AccessToken # Empty
              /\ task[p].read.Expiry = ZeroTime
              => /\ task[p].op = "IsTokenValid" => task[p].res.detail = "false"
                 /\ task[p].op = "GetValidToken"
                       => IF UsableCredential(task[p].req.provider, task[p].read)
                          THEN task[p].calls = 1
                          ELSE /\ task[p].calls = 0
                               /\ task[p].res.code # "OK"
                               /\ task[p].res.detail = "refresh token not available"

(* C17 as stated: every GetValidToken that finds a token persisted by a    *)
(* refresh without expires_in makes another provider refresh call.         *)
C17_EveryCallRefreshes ==
    \A p \in Procs :
        Replied(p, "GetValidToken") /\ RefreshedWithoutExpiry(task[p].read)
        => task[p].calls = 1

(* A GetValidToken has found the token an earlier refresh persisted with   *)
(* unset Expiry, and has made a provider refresh call again.               *)
C17_Witness ==
    \E p \in Procs :
        /\ Replied(p, "GetValidToken")
        /\ RefreshedWithoutExpiry(task[p].read)
        /\ task[p].calls = 1

C19_UnknownServerFallsBack ==
    \A p \in Procs :
        /\ Replied(p, "StartAuth")
        /\ task[p].req.server \notin ConfiguredServers
        => /\ task[p].res.code # "INVALID_PROVIDER"
           /\ task[p].res.detail # "server configuration not found"

(* C20: a token record changes only as a whole.  Every step leaves each    *)
(* record as it was or replaces it, in the save step of a refresh or of a  *)
(* callback, by the complete token that call obtained from the provider;   *)
(* a refresh returns that same token.  No other step of a refresh, the     *)
(* instagram substitution included, touches the store, and no record is    *)
(* removed.                                                                *)
C20_WholeRecordReplaced ==
    [][/\ DOMAIN tokenStore \subseteq DOMAIN tokenStore'
       /\ \A k \in DOMAIN tokenStore' :
             \/ k \in DOMAIN tokenStore /\ tokenStore'[k] = tokenStore[k]
             \/ \E p \in Procs :
                   /\ task[p].pc \in {"rf_save", "cb_save"}
                   /\ task'[p].wrote
                   /\ k = TokenKey(IF task[p].pc = "rf_save" THEN task[p].req.user
                                   ELSE callbackUserID(task[p].req.user,
                                                       DecodeState(task[p].req.state)),
                                   task[p].req.provider, task[p].req.server)
                   /\ UnmarshalToken(tokenStore'[k].data) = task[p].new
                   /\ task[p].pc = "rf_save" => task'[p].res.token = task[p].new]_vars

(* An instagram refresh has replied: it refreshed with the access token    *)
(* put into its own copy of a stored token that had no refresh token, and  *)
(* the store holds the provider's result, which has none either.           *)
C20_Witness ==
    \E p \in Procs :
        /\ task[p].op \in RefreshOps
        /\ task[p].req.provider = "instagram"
        /\ task[p].pc = "done" /\ task[p].wrote
        /\ task[p].read.RefreshToken = Empty
        /\ task[p].cur.RefreshToken = task[p].read.AccessToken
        /\ StoredToken(task[p].req.user, "instagram", task[p].req.server).token
              = task[p].res.token
        /\ task[p].res.token.RefreshToken = Empty
        /\ task[p].res.token.AccessToken # task[p].read.AccessToken

(* C21: when StartAuth replies with the authorization URL, a verifier is   *)
(* stored under the state it handed out exactly if the provider is x, and  *)
(* it is the verifier of this request; while the save is pending nothing   *)
(* has been replied; a StartAuth that replies with an error returns no URL.*)
C21_VerifierIffPKCE ==
    \A p \in Procs :
        task[p].op = "StartAuth" =>
            LET key == PKCEKey(task[p].req.state) IN
            /\ task[p].pc = "sa_save"
                  => /\ task[p].req.provider = "x"
                     /\ task[p].res = NoRes
                     /\ key \notin DOMAIN pkceStore
            /\ task[p].pc = "done" /\ task[p].res.code = "OK"
                  => /\ task[p].res.detail = "auth_url"
                     /\ Live(pkceStore, key) <=> task[p].req.provider = "x"
                     /\ task[p].req.provider = "x"
                           => pkceStore[key].data = <<"v", task[p].id, 1>>
            /\ task[p].pc = "done" /\ task[p].res.code # "OK"
                  => task[p].res.detail # "auth_url"

(* A StartAuth for x has replied with the URL and its verifier is stored.  *)
C21_Witness ==
    \E p \in Procs :
        /\ Replied(p, "StartAuth")
        /\ task[p].req.provider = "x"
        /\ task[p].res.code = "OK"
        /\ Live(pkceStore, PKCEKey(task[p].req.state))

(* The Callback of task q began after a Callback carrying the same state   *)
(* had exchanged a code and saved a token.                                 *)
StateUsedBefore(q) ==
    \E e \in used : e.state = task[q].req.state /\ e.at < task[q].id

(* C22: a Callback that carries a state with which an earlier Callback     *)
(* exchanged a code and saved a token is rejected: it makes no code        *)
(* exchange and saves no token, whatever the provider.                     *)
C22_StateConsumedOnce ==
    \A q \in Procs :
        task[q].op = "Callback" /\ StateUsedBefore(q)
        => /\ task[q].calls = 0
           /\ ~task[q].wrote
           /\ task[q].pc = "done" => task[q].res.code # "OK"

(* Two identities the claim lets share a key: same user and provider, and  *)
(* the server names are the empty one and "default".                       *)
DefaultAlias(a, b) ==
    /\ a.user = b.user /\ a.provider = b.provider
    /\ {a.server, b.server} \subseteq {"", "default"}

(* C23: an operation of the store on one identity leaves what is stored    *)
(* for every other identity as it was, the empty server name and "default" *)
(* being one identity.                                                     *)
C23_OtherIdentitiesUntouched ==
    probe # NoProbe =>
        \A b \in KeyIdentities :
            b # probe.id /\ ~DefaultAlias(probe.id, b)
            => GetToken(tokenStore, b.user, b.provider, b.server, TRUE)
                 = GetToken(probe.before, b.user, b.provider, b.server, TRUE)

(* C24: GetValidToken answers TokenNotFound, and IsTokenValid answers      *)
(* false for want of a token, only when the store holds no token for the   *)
(* identity.                                                               *)
C24_NotFoundOnlyWhenAbsent ==
    \A p \in Procs :
        LET key == TokenKey(task[p].req.user, task[p].req.provider, task[p].req.server) IN
        /\ Replied(p, "GetValidToken") /\ task[p].res.code = ErrTokenNotFound.code
              => ~Live(tokenStore, key)
        /\ Replied(p, "IsTokenValid") /\ task[p].read = ZeroToken
              => ~Live(tokenStore, key)

(* C25: a handler that goes through CreateAuthenticatedClient answers a    *)
(* request for an identity with no stored token with the TokenNotFound     *)
(* error kind.                                                             *)
C25_ShareReportsTokenNotFound ==
    \A p \in Procs :
        /\ Replied(p, "Share")
        /\ ~Live(tokenStore, TokenKey(task[p].req.user, task[p].req.provider,
                                      task[p].req.server))
        => task[p].res.code = ErrTokenNotFound.code

C27_ReauthorizationKept ==
    \A p, q \in Procs :
        /\ task[q].op = "Callback" /\ task[q].pc = "cb_verify"
        /\ task[p].op \in RefreshOps
        /\ TokenKey(task[p].req.user, task[p].req.provider, task[p].req.server)
             = TokenKey(callbackUserID(task[q].req.user, DecodeState(task[q].req.state)),
                        task[q].req.provider, task[q].req.server)
        /\ task[p].read.AccessToken # Empty
        /\ task[p].read.AccessToken # task[q].new.AccessToken
        => StoredToken(task[p].req.user, task[p].req.provider, task[p].req.server)
              .token.AccessToken = task[q].new.AccessToken

(* C28: in a Callback for x the verifier is removed after the state has    *)
(* been decoded, the server name compared and the configuration found, and *)
(* before the code exchange.  A Callback turned away by one of the checks  *)
(* has not touched the verifier; a Callback that reached the exchange,     *)
(* failed or not, has removed it; and a Callback that finds no verifier    *)
(* fails with "PKCE verifier not found or expired" and makes no exchange.  *)
C28_VerifierConsumedAfterChecks ==
    /\ [](\A p \in Procs :
            task[p].op = "Callback" /\ task[p].req.provider = "x" =>
               LET key == PKCEKey(task[p].req.state)
                   checked == /\ DecodeOK(task[p].req.state)
                              /\ serverNameMatches(task[p].req.server,
                                                   DecodeState(task[p].req.state))
                              /\ GetServerOAuthConfig("x", task[p].req.server).err = ""
               IN /\ task[p].pkce # "none" \/ task[p].pc \in {"cb_pkce_get", "cb_pkce_del"}
                        => checked
                  /\ ~checked => task[p].pc = "done" /\ task[p].calls = 0
                  /\ task[p].pc \in {"cb_exchange", "cb_save", "cb_verify"} \/ task[p].calls > 0
                        => task[p].pkce = "hit" /\ key \notin DOMAIN pkceStore
                  /\ task[p].pkce = "miss"
                        => /\ task[p].pc = "done" /\ task[p].calls = 0 /\ ~task[p].wrote
                           /\ task[p].res.detail = "PKCE verifier not found or expired")
    /\ [][\A p \in Procs :
            task'[p] # task[p] /\ task'[p].op = "Callback"
            => /\ task[p].pc # "cb_pkce_del" => pkceStore' = pkceStore
               /\ task[p].pc = "cb_pkce_get" /\ ~Live(pkceStore, PKCEKey(task[p].req.state))
                     => task'[p].verifier = Empty /\ task'[p].pc \in {"cb_pkce_del", "done"}
               /\ task[p].pc = "cb_pkce_del" /\ task[p].verifier = Empty
                     => task'[p].pkce = "miss"]_vars

(* A Callback for x whose code exchange failed has replied; the verifier   *)
(* of its state is gone from the store.                                    *)
C28_Witness ==
    \E p \in Procs :
        /\ Replied(p, "Callback")
        /\ task[p].req.provider = "x"
        /\ task[p].res.detail = "token exchange failed"
        /\ task[p].pkce = "hit"
        /\ ~Live(pkceStore, PKCEKey(task[p].req.state))

(* C29: when a Callback replies with an error, the store holds no token    *)
(* that this Callback obtained and saved.                                  *)
C29_FailedCallbackPersistsNothing ==
    \A p \in Procs :
        Replied(p, "Callback") /\ task[p].res.code # "OK"
        => LET g == StoredToken(callbackUserID(task[p].req.user,
                                               DecodeState(task[p].req.state)),
                                task[p].req.provider, task[p].req.server)
           IN g.err # "" \/ g.token.AccessToken[2] # task[p].id

(* C30: for a provider other than instagram, a GetValidToken that reads a  *)
(* stale token without refresh token, and a ForceRefreshToken that reads   *)
(* any token without refresh token, fails with "refresh token not          *)
(* available", makes no provider call and leaves the stored token as read. *)
C30_NoRefreshTokenNoRefresh ==
    \A p \in Procs :
        /\ task[p].op \in RefreshOps
        /\ task[p].req.provider # "instagram"
        /\ task[p].read.AccessToken # Empty
        /\ task[p].read.RefreshToken = Empty
        /\ \/ task[p].op = "ForceRefreshToken"
           \/ task[p].read.Expiry = ZeroTime
           \/ now + expiryBuffer > task[p].read.Expiry
        => /\ task[p].pc = "done"
           /\ task[p].calls = 0
           /\ ~task[p].wrote
           /\ task[p].res.code # "OK"
           /\ task[p].res.detail = "refresh token not available"
           /\ StoredToken(task[p].req.user, task[p].req.provider, task[p].req.server).token
                 = task[p].read

(* A GetValidToken for x has read the token a refresh of this run saved    *)
(* without refresh token and without expiry, and has failed without a      *)
(* provider call.                                                          *)
C30_Witness ==
    \E p \in Procs :
        /\ Replied(p, "GetValidToken")
        /\ task[p].req.provider = "x"
        /\ RefreshedWithoutExpiry(task[p].read)
        /\ task[p].read.RefreshToken = Empty
        /\ task[p].calls = 0
        /\ task[p].res.detail = "refresh token not available"
====
